---- MODULE Spec2Model ----
(***************************************************************************)
(* A model of the C layer of rss_ringoccs: the Python entry point          *)
(* fresnel_transform (argument checks, strategy dispatch, status           *)
(* handling), and the scalar special functions LambertW and                *)
(* Resolution_Inverse.                                                     *)
(***************************************************************************)
EXTENDS Integers, Sequences, FiniteSets, TLC

VARIABLES
    op,         \* the entry point this run executes
    pc,         \* position inside the entry point
    prec,       \* the variant of a scalar function: Float, Double, Long_Double
    dlp,        \* the DLPObj built by fresnel_transform
    use_fft,    \* the use_fft argument of fresnel_transform
    dims,       \* PyArray_DIMS(arr)[0] of every array argument read so far
    T_out,      \* state of the block malloc'ed for dlp.T_out
    ran,        \* the strategies run by this call, in order
    ret,        \* what the call handed back to its caller
    exc,        \* the Python exception set by the call
    ri_x,       \* Resolution_Inverse: the argument x
    P1,         \* Resolution_Inverse: local P1
    P2,         \* Resolution_Inverse: local P2
    ri_ret,     \* Resolution_Inverse: the value returned
    lw_calls,   \* number of LambertW evaluations started
    lw_x,       \* LambertW: the argument x
    x0,         \* LambertW: local x0
    dx,         \* LambertW: local dx
    iterates,   \* the pairs <<x0, dx>> the Halley steps of this call produced
    cycled,     \* a Halley step reproduced a pair already in iterates
    lw_ret,     \* LambertW: the value returned
    kb_x,       \* rssringoccs_Kaiser_Bessel: the argument x
    kb_W,       \* rssringoccs_Kaiser_Bessel: the argument W
    kb_alpha,   \* rssringoccs_Kaiser_Bessel: the argument alpha
    kb_ret,     \* rssringoccs_Kaiser_Bessel: the value returned
    i0_calls,   \* number of Bessel I0 evaluations of the call
    typenum,    \* a numpy entry point: PyArray_TYPE of the array argument
    ndim,       \* a numpy entry point: PyArray_NDIM of the array argument
    dim,        \* a numpy entry point: PyArray_DIMS(...)[0]
    scal,       \* a numpy entry point: the parsed double arguments, by name
    y,          \* a numpy entry point: the malloc'ed output buffer
    evals,      \* a numpy entry point: number of values computed
    py_ret,     \* a numpy entry point: the value returned
    py_exc,     \* a numpy entry point: the exception set
    out_type,   \* a numpy entry point: the dtype of the output array
    y_vals,     \* a numpy entry point: y[i], as <<C function called, index of its argument>>
    wg_data,    \* where_greater: the elements of the input array
    wg_arr,     \* where_greater: arr, the index array the helper builds
    wg_arr_size, \* where_greater: the helper's local arr_size
    where_dim,  \* where_greater: the value the caller reads through where[1]
    wn_ker,     \* window_norm: what the first argument is
    wn_factor,  \* window_norm: the double Window_Normalization_* returned
    wn_ret,     \* window_norm: the Python object returned
    log_x,      \* the log comparison: the sample
    log_c99,    \* the log comparison: log(x)
    log_rss     \* the log comparison: rssringoccs_Log_Double(x)

ftvars == <<dlp, use_fft, dims, T_out, ran, ret, exc>>
rivars == <<ri_x, P1, P2, ri_ret, lw_calls>>
lwvars == <<lw_x, x0, dx, iterates, cycled, lw_ret>>
kbvars == <<kb_x, kb_W, kb_alpha, kb_ret, i0_calls>>
pyvars == <<typenum, ndim, dim, scal, y, evals, py_ret, py_exc, out_type, y_vals>>
wgvars == <<wg_data, wg_arr, wg_arr_size, where_dim>>
wnvars == <<wn_ker, wn_factor, wn_ret>>
lgvars == <<log_x, log_c99, log_rss>>
extvars == <<wgvars, wnvars, lgvars>>
vars == <<op, pc, prec, dlp, use_fft, dims, T_out, ran, ret, exc,
          ri_x, P1, P2, ri_ret, lw_calls, lw_x, x0, dx, iterates, cycled, lw_ret,
          kb_x, kb_W, kb_alpha, kb_ret, i0_calls,
          typenum, ndim, dim, scal, y, evals, py_ret, py_exc,
          out_type, y_vals, wg_data, wg_arr, wg_arr_size, where_dim,
          wn_ker, wn_factor, wn_ret, log_x, log_c99, log_rss>>

(***************************************************************************)
(* Bounds of the model.                                                    *)
(***************************************************************************)
MaxLen     == 3     \* length of T_in; the other arrays have MaxLen-1 or MaxLen
MaxNUsed   == 1     \* n_used ranges over 0..MaxNUsed
MaxNonzero == 1     \* at most this many nonzero perturb coefficients
MaxWhereDim == 3    \* where_greater: the input array has at most this many elements
SCALE      == 1000  \* a real number r is held as the integer nearest r * SCALE

(***************************************************************************)
(* Floating-point values.  A value is finite (v is the number times        *)
(* SCALE), an infinity (v is its sign) or NaN.  A finite result beyond     *)
(* MaxFinite overflows to an infinity.  Every ordered comparison with a    *)
(* NaN operand is false.                                                   *)
(***************************************************************************)
MaxFinite == 40 * SCALE

Fin(n) == [k |-> "fin", v |-> n]
NaN    == [k |-> "nan", v |-> 0]
PInf   == [k |-> "inf", v |-> 1]
NInf   == [k |-> "inf", v |-> -1]

Zero == Fin(0)
One  == Fin(SCALE)
Two  == Fin(2 * SCALE)

IsNaN(a)    == a.k = "nan"
IsFinite(a) == a.k = "fin"
Sign(a)     == IF a.v < 0 THEN -1 ELSE 1
Signed(s)   == IF s < 0 THEN NInf ELSE PInf

Norm(n) == IF n > MaxFinite THEN PInf
           ELSE IF n < -MaxFinite THEN NInf
           ELSE Fin(n)

AbsInt(n) == IF n < 0 THEN -n ELSE n

\* n / d rounded to the nearest integer (d # 0).
RoundDiv(n, d) ==
    LET q == AbsInt(n) \div AbsInt(d)
        r == AbsInt(n) % AbsInt(d)
        m == IF 2 * r >= AbsInt(d) THEN q + 1 ELSE q
    IN  IF (n < 0) = (d < 0) THEN m ELSE -m

Lt(a, b) ==
    /\ ~IsNaN(a) /\ ~IsNaN(b)
    /\ IF a.k = "inf" THEN a.v < 0 /\ b # NInf
       ELSE IF b.k = "inf" THEN b.v > 0
       ELSE a.v < b.v
Gt(a, b) == Lt(b, a)
Eq(a, b) == ~IsNaN(a) /\ ~IsNaN(b) /\ a = b
Le(a, b) == Lt(a, b) \/ Eq(a, b)

Neg(a) == IF IsNaN(a) THEN NaN
          ELSE IF a.k = "inf" THEN Signed(-a.v)
          ELSE Fin(-a.v)

Abs(a) == IF IsNaN(a) THEN NaN
          ELSE IF a.k = "inf" THEN PInf
          ELSE Fin(AbsInt(a.v))

Add(a, b) ==
    IF IsNaN(a) \/ IsNaN(b) THEN NaN
    ELSE IF a.k = "inf" THEN (IF b.k = "inf" /\ b.v # a.v THEN NaN ELSE a)
    ELSE IF b.k = "inf" THEN b
    ELSE Norm(a.v + b.v)

Sub(a, b) == Add(a, Neg(b))

Mul(a, b) ==
    IF IsNaN(a) \/ IsNaN(b) THEN NaN
    ELSE IF a.k = "inf" \/ b.k = "inf"
         THEN IF a = Zero \/ b = Zero THEN NaN ELSE Signed(Sign(a) * Sign(b))
    ELSE Norm(RoundDiv(a.v * b.v, SCALE))

Div(a, b) ==
    IF IsNaN(a) \/ IsNaN(b) THEN NaN
    ELSE IF a.k = "inf"
         THEN IF b.k = "inf" THEN NaN ELSE Signed(Sign(a) * Sign(b))
    ELSE IF b.k = "inf" THEN Zero
    ELSE IF b.v = 0 THEN (IF a.v = 0 THEN NaN ELSE Signed(a.v))
    ELSE Norm(RoundDiv(a.v * SCALE, b.v))

\* exp of a finite argument 0 <= v <= 4: the Taylor series, term by term.
RECURSIVE ExpSeries(_, _, _)
ExpSeries(v, term, n) ==
    IF term = 0 THEN 0
    ELSE term + ExpSeries(v, RoundDiv(term * v, n * SCALE), n + 1)

RECURSIVE ExpFix(_)
ExpFix(v) ==
    IF v > 4 * SCALE THEN MaxFinite + 1
    ELSE IF v >= 0 THEN ExpSeries(v, SCALE, 1)
    ELSE IF v >= -4 * SCALE THEN RoundDiv(SCALE * SCALE, ExpSeries(-v, SCALE, 1))
    ELSE LET h == ExpFix(v \div 2) IN RoundDiv(h * h, SCALE)

Exp(a) == IF IsNaN(a) THEN NaN
          ELSE IF a = PInf THEN PInf
          ELSE IF a = NInf THEN Zero
          ELSE Norm(ExpFix(a.v))

\* log of a finite argument 1 <= v <= e: 2 * atanh((v - 1) / (v + 1)).
RECURSIVE AtanhSeries(_, _, _)
AtanhSeries(z2, pow, n) ==
    IF pow = 0 THEN 0
    ELSE RoundDiv(pow, n) + AtanhSeries(z2, RoundDiv(pow * z2, SCALE), n + 2)

EulerE == RoundDiv(271828 * SCALE, 100000)

RECURSIVE LogFix(_)
LogFix(v) ==
    IF v > EulerE THEN SCALE + LogFix(RoundDiv(v * SCALE, EulerE))
    ELSE IF v < SCALE THEN LogFix(RoundDiv(v * EulerE, SCALE)) - SCALE
    ELSE LET z == RoundDiv((v - SCALE) * SCALE, v + SCALE)
         IN  2 * AtanhSeries(RoundDiv(z * z, SCALE), z, 1)

Log(a) == IF IsNaN(a) THEN NaN
          ELSE IF a = PInf THEN PInf
          ELSE IF a.v < 0 THEN NaN
          ELSE IF a.v = 0 THEN NInf
          ELSE Fin(LogFix(a.v))

(***************************************************************************)
(* fresnel_transform: arguments.                                           *)
(***************************************************************************)
ArrayNames == <<"T_in", "rho_km_vals", "F_km_vals", "phi_rad_vals",
                "kd_vals", "B_rad_vals", "D_km_vals", "w_km_vals">>

\* Finite arguments of the scalar functions: a grid of step SCALE/20 from -1
\* to 12, and the neighbours of -1/e, 1 and 2.
FinInputs ==
    {n * (SCALE \div 20) : n \in -20 .. 240}
    \cup {RoundDiv(367879 * SCALE, 1000000) * (-1) + e : e \in -1 .. 1}
    \cup {SCALE + e : e \in -1 .. 1}
    \cup {2 * SCALE + e : e \in -1 .. 1}

Lens    == {MaxLen - 1, MaxLen}
Starts  == -1 .. (MaxLen + 1)
NUseds  == 0 .. MaxNUsed
Orders  == {0, 1, 2, 8, 9, 255}
Reals   == {0, 1}          \* ecc, peri and the perturb coefficients

\* What PyIter_Next can hand back for one item of perturb.
PerturbItems == {[kind |-> "long",  val |-> 0], [kind |-> "long",  val |-> 1],
                 [kind |-> "float", val |-> 0], [kind |-> "float", val |-> 1],
                 [kind |-> "other", val |-> 0], [kind |-> "NULL",  val |-> 0]}

NoExc == [type |-> "none", msg |-> "none"]
Err(t, m) == [type |-> t, msg |-> m]

RECURSIVE CountNonzero(_)
CountNonzero(s) ==
    IF s = <<>> THEN 0
    ELSE (IF Head(s) # 0 THEN 1 ELSE 0) + CountNonzero(Tail(s))

\* ndim and dtype of an array argument, as PyArray_NDIM / PyArray_TYPE give them.
NDims  == {1, 2}
DTypes == {"expected", "other"}

(***************************************************************************)
(* The status codes a strategy leaves in dlp.status.  The strategies       *)
(* DiffractionCorrectionNewton etc. are called with &dlp and report through *)
(* dlp.status: 0 success, 1 data, 2 range, 3 allocation, 4 interp.  A      *)
(* Newton-type strategy whose stationary-phase solver does not converge    *)
(* within its 20 iterations reports NonConvergence, a further status.      *)
(***************************************************************************)
NonConvergenceStatus == 5

NewtonType == {"Newton", "PerturbedNewton", "Ellipse"}

StrategyStatuses(s) ==
    IF s \in NewtonType THEN 0 .. NonConvergenceStatus
    ELSE 0 .. (NonConvergenceStatus - 1)

(***************************************************************************)
(* fresnel_transform, lines 833-847: the strategy the call dispatches to.  *)
(***************************************************************************)
PerturbAllZero(p) == \A j \in 1 .. 5 : p[j] = 0

\* The two else branches of lines 842-843 attached the other way round.
SelectStrategy_ElseSwapped(fft, order, ecc, peri, p) ==
    IF fft # 0 THEN "SimpleFFT"
    ELSE IF order = 0
         THEN IF (ecc = 0) /\ (peri = 0)
              THEN IF PerturbAllZero(p) THEN "Newton"
                   ELSE "Ellipse"
              ELSE "PerturbedNewton"
         ELSE IF order = 1 THEN "Fresnel"
         ELSE "Legendre"

SelectStrategy(fft, order, ecc, peri, p) ==
    IF fft # 0 THEN "SimpleFFT"
    ELSE IF order = 0
         THEN IF (ecc = 0) /\ (peri = 0)
              THEN IF PerturbAllZero(p) THEN "Newton"
                   ELSE "PerturbedNewton"
              ELSE "Ellipse"
         ELSE IF order = 1 THEN "Fresnel"
         ELSE "Legendre"

(***************************************************************************)
(* fresnel_transform, lines 862-938: the exception raised for a nonzero    *)
(* status.                                                                 *)
(***************************************************************************)
StatusError(status) ==
    IF status = 1 THEN Err("TypeError", "Could not extract data from inputs")
    ELSE IF status = 2
         THEN Err("IndexError", "Required window width goes beyond the data range")
    ELSE IF status = 3 THEN Err("MemoryError", "Malloc failed to create new variables")
    ELSE IF status = 4 THEN Err("MemoryError", "Interp should be either 0, 2, 3, or 4")
    ELSE Err("TypeError", "Input should be one dimensional numpy arrays")

\* The interp status (4) treated as a success.
ReturnsArray_InterpAccepted(status) == status = 0 \/ status = 4

\* Lines 848-861: only status 0 builds the output array.
ReturnsArray(status) == status = 0

(***************************************************************************)
(* fresnel_transform, lines 621, 651, 681, 711, 741, 771, 801: the length  *)
(* the k-th array's size test compares with dlp.arr_size.  d holds the     *)
(* lengths of arrays 1..k.  The test written for D_km_vals (line 771)      *)
(* reads PyArray_DIMS(B_rad_vals).                                         *)
(***************************************************************************)
ComparedDim(k, d) == IF ArrayNames[k] = "D_km_vals" THEN d[k - 1] ELSE d[k]

ArrSize == dims[1]

Fail(e) ==
    /\ pc' = "done"
    /\ ret' = "NULL"
    /\ exc' = e

(***************************************************************************)
(* Initial state: the entry point has been called, nothing has run.        *)
(***************************************************************************)
DlpInit == [start |-> 0, n_used |-> 0, order |-> 0, ecc |-> 0, peri |-> 0,
            perturb |-> <<>>, status |-> -1]

\* Locals and results that have not been assigned yet.
Unset == [k |-> "unset", v |-> 0]

Precs == {"Float", "Double", "Long_Double"}

\* The arguments the scalar functions are called with.
Doubles == {NaN, PInf, NInf} \cup {Fin(n) : n \in FinInputs}

\* The numbers x whose product x * exp(x) LambertW_Double is called with:
\* a grid of step SCALE/40 from -1 up to 0.8, where no intermediate value
\* of the Halley step overflows.
RoundTripInputs == {n * (SCALE \div 40) : n \in -40 .. 32}

RoundTripArgs == {Mul(Fin(x), Exp(Fin(x))) : x \in RoundTripInputs}

\* The arguments rssringoccs_Kaiser_Bessel is called with.
KBArgs   == {NaN, PInf, NInf} \cup
            {Fin(n) : n \in {-2 * SCALE, -SCALE, -(SCALE \div 2), -1, 0, 1,
                             SCALE \div 2, SCALE, 2 * SCALE}}
KBWidths == {NaN, PInf, NInf} \cup
            {Fin(n) : n \in {-2 * SCALE, 0, 2, SCALE, 2 * SCALE, 4 * SCALE}}
KBAlphas == {NaN, PInf, NInf} \cup
            {Fin(n) : n \in {-SCALE, 0, SCALE \div 2, SCALE, 2 * SCALE}}

ScalarOps == {"LambertW", "Resolution_Inverse"}

(***************************************************************************)
(* The numpy entry points of the extension module.  Each one parses its    *)
(* arguments, checks them in an else-if chain, and dispatches on the dtype *)
(* of the array.                                                           *)
(***************************************************************************)
\* Instances of OneVarFunctionForNumpy, and besselJ0 / besselI0 of _bessel.h.
PyOneVar == {"besselJ0", "besselI0", "sinc", "fresnel_sin", "fresnel_cos",
             "lambertw", "wavelength_to_wavenumber",
             "frequency_to_wavelength", "resolution_inverse"}
\* Instances of WindowFunctionForNumpy.
PyWindow == {"rect", "coss", "kb20", "kb25", "kb35",
             "kbmd20", "kbmd25", "kbmd35"}
PyAlphaWindow == {"kbal", "kbmdal"}
PyTwoEdge == {"gap_diffraction", "ringlet_diffraction"}
PyOneEdge == {"right_straightedge", "left_straightedge"}
PyForward == PyTwoEdge \cup PyOneEdge \cup {"square_wave_diffraction"}
PyFunctions == PyOneVar \cup PyWindow \cup PyAlphaWindow \cup PyForward
                   \cup {"where_lesser"}

\* The "d" arguments of each PyArg_ParseTuple format, by the C variable name.
PyScalars(fn) ==
    IF fn \in PyOneVar THEN {}
    ELSE IF fn \in PyWindow THEN {"dx"}
    ELSE IF fn \in PyAlphaWindow THEN {"dx", "alpha"}
    ELSE IF fn \in PyTwoEdge THEN {"a", "b", "F"}
    ELSE IF fn \in PyOneEdge THEN {"a", "F"}
    ELSE IF fn = "square_wave_diffraction" THEN {"W", "F"}
    ELSE {"threshold"}

PyScalarValues == {Fin(0 - SCALE), Zero, One, Two}
PyNDims == {1, 2}
PyDims == {0, 1, 2}

PyTypenums == {"NPY_FLOAT", "NPY_DOUBLE", "NPY_LONGDOUBLE", "NPY_BYTE",
               "NPY_UBYTE", "NPY_SHORT", "NPY_USHORT", "NPY_INT", "NPY_UINT",
               "NPY_LONG", "NPY_ULONG", "NPY_LONGLONG", "NPY_ULONGLONG",
               "NPY_BOOL"}
PyIntegerTypenums == {"NPY_BYTE", "NPY_UBYTE", "NPY_SHORT", "NPY_USHORT",
                      "NPY_INT", "NPY_UINT", "NPY_LONG", "NPY_ULONG",
                      "NPY_LONGLONG", "NPY_ULONGLONG"}
\* The integer tests of the dispatch chain, in the order of the source:
\* the test after NPY_LONGLONG is NPY_ULONG a second time.
PyIntegerTests == <<"NPY_BYTE", "NPY_UBYTE", "NPY_SHORT", "NPY_USHORT",
                    "NPY_INT", "NPY_UINT", "NPY_LONG", "NPY_ULONG",
                    "NPY_LONGLONG", "NPY_ULONG">>
PyFloatTypenums == {"NPY_FLOAT", "NPY_DOUBLE", "NPY_LONGDOUBLE"}

\* The dtypes for which the dispatch chain of fn reaches a computing branch.
PyAccepts(fn, t) ==
    IF fn = "square_wave_diffraction" THEN t = "NPY_DOUBLE"
    ELSE \/ t \in PyFloatTypenums
         \/ \E j \in DOMAIN PyIntegerTests : PyIntegerTests[j] = t

\* The C function each integer test of the chain calls, by the suffix of its
\* name.  In OneVarFunctionForNumpy the second NPY_ULONG branch calls
\* CName##_Long_Long; everywhere else it calls the _ULong_Long function.
PyIntegerCalls(fn) ==
    <<"Char", "UChar", "Short", "UShort", "Int", "UInt", "Long", "ULong",
      "Long_Long", IF fn \in PyOneVar THEN "Long_Long" ELSE "ULong_Long">>

PyBranch(t, c) == [test |-> t, call |-> c]
PyIntegerBranches(fn) ==
    [j \in DOMAIN PyIntegerTests |->
        PyBranch(PyIntegerTests[j], PyIntegerCalls(fn)[j])]

\* The whole if / else-if chain on typenum, in source order.
PyBranches(fn) ==
    IF fn = "square_wave_diffraction" THEN <<PyBranch("NPY_DOUBLE", "Double")>>
    ELSE IF fn = "where_lesser"
    THEN PyIntegerBranches(fn)
         \o <<PyBranch("NPY_FLOAT", "Float"), PyBranch("NPY_DOUBLE", "Double"),
              PyBranch("NPY_LONGDOUBLE", "Long_Double")>>
    ELSE IF fn \in PyOneVar \cup {"gap_diffraction"}
    THEN <<PyBranch("NPY_FLOAT", "Float"), PyBranch("NPY_DOUBLE", "Double"),
           PyBranch("NPY_LONGDOUBLE", "Long_Double")>>
         \o PyIntegerBranches(fn)
    ELSE <<PyBranch("NPY_FLOAT", "Float"),
           PyBranch("NPY_LONGDOUBLE", "Long_Double"),
           PyBranch("NPY_DOUBLE", "Double")>>
         \o PyIntegerBranches(fn)

\* The branch taken if the last matching test won.
PyTaken_Last(chain, t) ==
    CHOOSE j \in DOMAIN chain :
        chain[j].test = t /\ \A i \in DOMAIN chain : i > j => chain[i].test # t

\* The branch an else-if chain takes: the first whose test matches.
PyTaken(chain, t) ==
    CHOOSE j \in DOMAIN chain :
        chain[j].test = t /\ \A i \in 1 .. (j - 1) : chain[i].test # t

PyCalled(fn, t) == PyBranches(fn)[PyTaken(PyBranches(fn), t)].call

\* The dtype handed to PyArray_SimpleNewFromData in the branch taken.
PyOutType(fn, t) ==
    IF fn = "where_lesser" THEN "NPY_LONG"
    ELSE IF fn \in PyForward
    THEN IF fn # "square_wave_diffraction" /\ t = "NPY_FLOAT" THEN "NPY_CFLOAT"
         ELSE IF fn # "square_wave_diffraction" /\ t = "NPY_LONGDOUBLE"
         THEN "NPY_CLONGDOUBLE"
         ELSE "NPY_CDOUBLE"
    ELSE IF t = "NPY_FLOAT" THEN "NPY_FLOAT"
    ELSE IF t = "NPY_LONGDOUBLE" THEN "NPY_LONGDOUBLE"
    ELSE "NPY_DOUBLE"

\* _array_from_one and its siblings: for (i=0; i<dim; ++i) y[i] = (*f)(x[i], ...).
\* Element i of the result records the function called and the index of
\* the input element it was called on.
PyLoop(n, f) == [i \in 1 .. n |-> [f |-> f, arg |-> i]]

\* where_lesser allocates inside Where_Lesser_*; every other entry point
\* calls malloc before the integer tests (square_wave_diffraction before
\* its only test), so the buffer exists when the else branch is reached.
PyAllocatesBeforeTests(fn) == fn # "where_lesser"

Ge(a, b) == Gt(a, b) \/ Eq(a, b)

\* The width test with 0 let through.
PyBadWidth_Strict(w) == Lt(w, Zero)

\* WindowFunctionForNumpy line 252, kbal line 2084: if (dx <= 0).
PyBadWidth(w) == Le(w, Zero)

\* The else-if chain of checks between PyArg_ParseTuple and the dispatch,
\* in source order.  returns = FALSE: the branch sets the exception and
\* falls through to the dispatch.
PyOutcome(e, r) == [err |-> e, returns |-> r]
PyCheck(fn, nd, d, sc) ==
    IF nd # 1
    THEN PyOutcome(Err("TypeError", "not 1-dimensional"), TRUE)
    ELSE IF fn \in PyOneVar
    THEN IF d = 0 THEN PyOutcome(Err("TypeError", "empty"), FALSE)
         ELSE PyOutcome(NoExc, FALSE)
    ELSE IF fn \in PyWindow \cup PyAlphaWindow
    THEN IF d = 0 THEN PyOutcome(Err("TypeError", "empty"), TRUE)
         ELSE IF PyBadWidth(sc["dx"])
         THEN PyOutcome(Err("ValueError", "dx must be positive"), TRUE)
         ELSE IF fn \in PyAlphaWindow /\ Lt(sc["alpha"], Zero)
         THEN PyOutcome(Err("ValueError", "alpha must be non-negative"), TRUE)
         ELSE PyOutcome(NoExc, FALSE)
    ELSE IF fn \in PyTwoEdge \cup PyOneEdge
    THEN IF fn \in PyTwoEdge /\ Ge(sc["a"], sc["b"])
         THEN PyOutcome(Err("TypeError", "a >= b"), TRUE)
         ELSE IF Le(sc["a"], Zero)
         THEN PyOutcome(Err("TypeError", "a must be positive"), TRUE)
         ELSE IF Lt(sc["F"], Zero)
         THEN PyOutcome(Err("TypeError", "F must be positive"), TRUE)
         ELSE IF d = 0 THEN PyOutcome(Err("TypeError", "empty"), FALSE)
         ELSE PyOutcome(NoExc, FALSE)
    ELSE IF fn = "square_wave_diffraction"
    THEN IF Le(sc["W"], Zero)
         THEN PyOutcome(Err("TypeError", "W must be positive"), TRUE)
         ELSE IF Le(sc["F"], Zero)
         THEN PyOutcome(Err("TypeError", "F must be positive"), TRUE)
         ELSE IF d = 0 THEN PyOutcome(Err("TypeError", "empty"), FALSE)
         ELSE PyOutcome(NoExc, FALSE)
    ELSE PyOutcome(NoExc, FALSE)


Init ==
    /\ op \in {"fresnel_transform", "LambertW", "Resolution_Inverse",
               "Kaiser_Bessel", "where_greater", "window_norm",
               "log_compare"}
              \cup PyFunctions
    /\ pc = IF op \in PyFunctions THEN "py_args"
            ELSE IF op = "where_greater" THEN "wg_args"
            ELSE IF op = "window_norm" THEN "wn_args"
            ELSE IF op = "log_compare" THEN "lg_sample"
            ELSE IF op = "fresnel_transform" THEN "ft_args"
            ELSE IF op = "LambertW" THEN "lw_entry"
            ELSE IF op = "Resolution_Inverse" THEN "ri_entry"
            ELSE "kb_entry"
    /\ prec \in (IF op \in ScalarOps THEN Precs ELSE {"Double"})
    /\ kb_x \in (IF op = "Kaiser_Bessel" THEN KBArgs ELSE {Unset})
    /\ kb_W \in (IF op = "Kaiser_Bessel" THEN KBWidths ELSE {Unset})
    /\ kb_alpha \in (IF op = "Kaiser_Bessel" THEN KBAlphas ELSE {Unset})
    /\ kb_ret = Unset
    /\ i0_calls = 0
    /\ dlp = DlpInit
    /\ use_fft = 0
    /\ dims = <<>>
    /\ T_out = "unallocated"
    /\ ran = <<>>
    /\ ret = "none"
    /\ exc = NoExc
    /\ ri_x \in (IF op = "Resolution_Inverse" THEN Doubles ELSE {Unset})
    /\ lw_x \in (IF op = "LambertW" THEN Doubles \cup RoundTripArgs ELSE {Unset})
    /\ P1 = Unset /\ P2 = Unset /\ ri_ret = Unset
    /\ x0 = Unset /\ dx = Unset /\ lw_ret = Unset
    /\ lw_calls = 0
    /\ iterates = {}
    /\ cycled = FALSE
    /\ typenum = "unset" /\ ndim = 0 /\ dim = 0 /\ scal = <<>>
    /\ y = "unallocated" /\ evals = 0
    /\ py_ret = "none" /\ py_exc = NoExc
    /\ out_type = "none" /\ y_vals = <<>>
    /\ wg_data = <<>> /\ wg_arr = <<>> /\ wg_arr_size = 0 /\ where_dim = 0
    /\ wn_ker = "none" /\ wn_factor = Unset /\ wn_ret = [type |-> "none", val |-> 0]
    /\ log_x = Unset /\ log_c99 = Unset /\ log_rss = Unset

(***************************************************************************)
(* fresnel_transform, lines 484-550: PyArg_ParseTuple and PyObject_GetIter.*)
(* The scalar arguments are copied into dlp here; the model draws each one *)
(* at the statement that first branches on it.                             *)
(***************************************************************************)
FT_ParseArgs ==
    /\ op = "fresnel_transform" /\ pc = "ft_args"
    /\ \E parsed \in {"ok", "bad_args", "not_iterable"} :
         IF parsed = "ok"
         THEN /\ pc' = "ft_perturb"
              /\ UNCHANGED <<ret, exc>>
         ELSE Fail(Err("TypeError", parsed))
    /\ UNCHANGED <<op, prec, dlp, use_fft, dims, T_out, ran>>
    /\ UNCHANGED <<rivars, lwvars, kbvars, pyvars, extvars>>

(***************************************************************************)
(* fresnel_transform, lines 552-575: one pass of the loop over perturb.    *)
(* A NULL item (list too short) sets TypeError and is then handed to       *)
(* PyLong_Check, which dereferences it; an item that is neither int nor    *)
(* float sets TypeError and leaves dlp.perturb[i] unassigned.  Neither     *)
(* branch returns.                                                         *)
(***************************************************************************)
FT_PerturbItem ==
    /\ op = "fresnel_transform" /\ pc = "ft_perturb"
    /\ \E next \in PerturbItems, garbage \in Reals :
         LET v == IF next.kind = "other" THEN garbage ELSE next.val
             p == Append(dlp.perturb, v)
         IN  /\ CountNonzero(p) <= MaxNonzero
             /\ IF next.kind = "NULL"
                THEN /\ pc' = "crashed"
                     /\ exc' = Err("TypeError", "Size of your list")
                     /\ dlp' = dlp
                ELSE /\ dlp' = [dlp EXCEPT !.perturb = p]
                     /\ pc' = IF Len(p) = 5 THEN "ft_arrays" ELSE "ft_perturb"
                     /\ exc' = IF next.kind = "other"
                               THEN Err("TypeError", "not real numbers")
                               ELSE exc
    /\ UNCHANGED <<op, prec, use_fft, dims, T_out, ran, ret>>
    /\ UNCHANGED <<rivars, lwvars, kbvars, pyvars, extvars>>

(***************************************************************************)
(* fresnel_transform, lines 578-810: the checks on the next array          *)
(* argument: dtype, number of dimensions, and (for all but T_in) length.   *)
(***************************************************************************)
FT_CheckArray ==
    /\ op = "fresnel_transform" /\ pc = "ft_arrays"
    /\ LET k == Len(dims) + 1 IN
       \E ty \in DTypes, nd \in NDims,
          len \in (IF k = 1 THEN {MaxLen} ELSE Lens) :
         LET d == Append(dims, len) IN
         /\ dims' = d
         /\ IF ty # "expected"
            THEN Fail(Err("TypeError", ArrayNames[k]))
            ELSE IF nd # 1
            THEN Fail(Err("IndexError", ArrayNames[k]))
            ELSE IF k > 1 /\ ComparedDim(k, d) # d[1]
            THEN Fail(Err("IndexError", ArrayNames[k]))
            ELSE /\ pc' = IF k = Len(ArrayNames) THEN "ft_range" ELSE "ft_arrays"
                 /\ UNCHANGED <<ret, exc>>
    /\ UNCHANGED <<op, prec, dlp, use_fft, T_out, ran>>
    /\ UNCHANGED <<rivars, lwvars, kbvars, pyvars, extvars>>

(***************************************************************************)
(* fresnel_transform, lines 812-829: the range check on start and n_used.  *)
(***************************************************************************)
RangeOK(start, n_used, arr_size) ==
    /\ ~(start > arr_size)
    /\ ~(start + n_used > arr_size)

FT_RangeCheck ==
    /\ op = "fresnel_transform" /\ pc = "ft_range"
    /\ \E start \in Starts, n_used \in NUseds :
         /\ dlp' = [dlp EXCEPT !.start = start, !.n_used = n_used]
         /\ IF RangeOK(start, n_used, ArrSize)
            THEN /\ pc' = "ft_dispatch"
                 /\ UNCHANGED <<ret, exc>>
            ELSE Fail(Err("IndexError", "start"))
    /\ UNCHANGED <<op, prec, use_fft, dims, T_out, ran>>
    /\ UNCHANGED <<rivars, lwvars, kbvars, pyvars, extvars>>

(***************************************************************************)
(* fresnel_transform, lines 831-847: malloc of T_out, then the one         *)
(* strategy the call runs; the strategy leaves its status in dlp.status.   *)
(***************************************************************************)
FT_Dispatch ==
    /\ op = "fresnel_transform" /\ pc = "ft_dispatch"
    /\ \E fft \in {0, 1}, order \in Orders, ecc \in Reals, peri \in Reals :
         LET s == SelectStrategy(fft, order, ecc, peri, dlp.perturb) IN
         \E status \in StrategyStatuses(s) :
           /\ use_fft' = fft
           /\ T_out' = "live"
           /\ ran' = Append(ran, s)
           /\ dlp' = [dlp EXCEPT !.order = order, !.ecc = ecc, !.peri = peri,
                                 !.status = status]
    /\ pc' = "ft_return"
    /\ UNCHANGED <<op, prec, dims, ret, exc>>
    /\ UNCHANGED <<rivars, lwvars, kbvars, pyvars, extvars>>

(***************************************************************************)
(* fresnel_transform, lines 848-939: status 0 wraps T_out in a numpy array *)
(* owned by a capsule; every other status sets an exception and returns    *)
(* NULL.  T_out is not passed to free on that path.                        *)
(***************************************************************************)
FT_Return ==
    /\ op = "fresnel_transform" /\ pc = "ft_return"
    /\ IF ReturnsArray(dlp.status)
       THEN /\ dlp' = [dlp EXCEPT !.n_used = dlp.n_used + 1]
            /\ T_out' = "owned_by_output"
            /\ ret' = "array"
            /\ exc' = exc
       ELSE /\ ret' = "NULL"
            /\ exc' = StatusError(dlp.status)
            /\ UNCHANGED <<dlp, T_out>>
    /\ pc' = "done"
    /\ UNCHANGED <<op, prec, use_fft, dims, ran>>
    /\ UNCHANGED <<rivars, lwvars, kbvars, pyvars, extvars>>


(***************************************************************************)
(* LambertW_Float, LambertW_Double and LambertW_Long_Double                 *)
(* (__math_function_lambertw.c, lines 3-103): one body, three values of    *)
(* EPS.  Line numbers below are those of LambertW_Double.                  *)
(***************************************************************************)
\* RCPR_EULER_E, 1/e.
RCPR_EULER_E == Fin(RoundDiv(367879 * SCALE, 1000000))

\* EPS: 1.0e-4 (line 4), 1.0e-8 (line 38), 1.0e-16 (line 72).
EPS(p) ==
    IF p = "Float" THEN Fin(RoundDiv(SCALE, 10000))
    ELSE IF p = "Double" THEN Fin(RoundDiv(SCALE, 100000000))
    ELSE Fin(RoundDiv(RoundDiv(SCALE, 100000000), 100000000))

\* Line 40: the guard of the iterative branch.
LW_Iterates(x) == Lt(x, PInf) /\ Gt(x, Neg(RCPR_EULER_E))

\* Lines 42-53: the starting guess ("return" when the branch returns instead).
LW_Guess(x) ==
    IF Gt(x, Two) THEN Log(Div(x, Log(x)))
    ELSE IF Gt(x, Neg(RCPR_EULER_E)) THEN x
    ELSE Unset

\* The returns of lines 66 and 67 exchanged.
LW_Special_Exchanged(x) ==
    IF Eq(x, Neg(RCPR_EULER_E)) THEN NaN
    ELSE IF Lt(x, Neg(RCPR_EULER_E)) THEN Neg(One)
    ELSE PInf

\* Lines 66-68: the value returned outside the iterative branch.
LW_Special(x) ==
    IF Eq(x, Neg(RCPR_EULER_E)) THEN Neg(One)
    ELSE IF Lt(x, Neg(RCPR_EULER_E)) THEN NaN
    ELSE PInf

\* Lines 54-56 and 59-61: one Halley step, the value assigned to dx.
HalleyStep(x, w) ==
    LET exp_x0 == Exp(w)
        f      == Sub(Mul(w, exp_x0), x)
    IN  Div(f, Sub(Mul(exp_x0, Add(w, One)),
                   Div(Mul(Add(w, Two), f), Add(Mul(Two, w), Two))))

\* Line 58: the loop goes on while fabs(dx) > EPS.
LW_Continue(p, d) == Gt(Abs(d), EPS(p))

\* Where LambertW returns to.
LW_ReturnPc == IF op = "Resolution_Inverse" THEN "ri_return" ELSE "done"

\* Lines 40-57 and 66-68: entry, starting guess and the first Halley step.
LW_Enter ==
    /\ pc = "lw_entry"
    /\ IF LW_Iterates(lw_x)
       THEN LET g == LW_Guess(lw_x)
                d == HalleyStep(lw_x, g)
            IN  /\ dx' = d
                /\ x0' = Sub(g, d)
                /\ iterates' = {<<Sub(g, d), d>>}
                /\ pc' = "lw_loop"
                /\ UNCHANGED <<lw_ret, cycled>>
       ELSE /\ lw_ret' = LW_Special(lw_x)
            /\ pc' = LW_ReturnPc
            /\ UNCHANGED <<x0, dx, iterates, cycled>>
    /\ UNCHANGED <<op, prec, lw_x, ftvars, rivars>>
    /\ UNCHANGED <<kbvars, pyvars, extvars>>

\* Lines 58-64: one test of the while condition, then either one more
\* Halley step or the return of x0.
LW_Loop ==
    /\ pc = "lw_loop"
    /\ IF LW_Continue(prec, dx)
       THEN LET d == HalleyStep(lw_x, x0)
            IN  /\ dx' = d
                /\ x0' = Sub(x0, d)
                /\ iterates' = iterates \cup {<<Sub(x0, d), d>>}
                /\ cycled' = (cycled \/ <<Sub(x0, d), d>> \in iterates)
                /\ UNCHANGED <<pc, lw_ret>>
       ELSE /\ lw_ret' = x0
            /\ pc' = LW_ReturnPc
            /\ UNCHANGED <<x0, dx, iterates, cycled>>
    /\ UNCHANGED <<op, prec, lw_x, ftvars, rivars>>
    /\ UNCHANGED <<kbvars, pyvars, extvars>>

(***************************************************************************)
(* Resolution_Inverse_Float, _Double and _Long_Double (kaiser_bessel.c,    *)
(* lines 45-88).  Line numbers below are those of Resolution_Inverse_Double.*)
(***************************************************************************)
\* The guard of line 62 with 0.0 in place of 1.0.
RI_DomainError_Zero(x) == Le(x, Zero)

\* The guard of line 62 with < in place of <=.
RI_DomainError_Strict(x) == Lt(x, One)

\* Line 62: the guard of the domain error.
RI_DomainError(x) == Le(x, One)

\* Lines 60-72: entry; either a return or the call of LambertW(P2).
RI_Enter ==
    /\ pc = "ri_entry"
    /\ IF RI_DomainError(ri_x)
       THEN /\ ri_ret' = NaN
            /\ pc' = "done"
            /\ UNCHANGED <<P1, P2, lw_calls, lw_x>>
       ELSE IF Lt(ri_x, PInf)
       THEN LET p1 == Div(ri_x, Sub(One, ri_x))
                p2 == Mul(p1, Exp(p1))
            IN  /\ P1' = p1
                /\ P2' = p2
                /\ lw_x' = p2
                /\ lw_calls' = lw_calls + 1
                /\ pc' = "lw_entry"
                /\ ri_ret' = ri_ret
       ELSE /\ ri_ret' = Zero
            /\ pc' = "done"
            /\ UNCHANGED <<P1, P2, lw_calls, lw_x>>
    /\ UNCHANGED <<op, prec, ri_x, ftvars, x0, dx, iterates, cycled, lw_ret>>
    /\ UNCHANGED <<kbvars, pyvars, extvars>>

\* Line 68 with + in place of -.
RI_Return_Sum ==
    /\ pc = "ri_return"
    /\ ri_ret' = Add(lw_ret, P1)
    /\ pc' = "done"
    /\ UNCHANGED <<op, prec, ri_x, P1, P2, lw_calls, ftvars, lwvars>>
    /\ UNCHANGED <<kbvars, pyvars, extvars>>

\* Line 68: return LambertW(P2) - P1.
RI_Return ==
    /\ pc = "ri_return"
    /\ ri_ret' = Sub(lw_ret, P1)
    /\ pc' = "done"
    /\ UNCHANGED <<op, prec, ri_x, P1, P2, lw_calls, ftvars, lwvars>>
    /\ UNCHANGED <<kbvars, pyvars, extvars>>

(***************************************************************************)
(* rssringoccs_Kaiser_Bessel_Float, _Double and _LongDouble                *)
(* (kaiser_bessel.c, lines 7-41): one macro body for the three types.      *)
(***************************************************************************)
\* ONE_PI.
ONE_PI == Fin(RoundDiv(314159 * SCALE, 100000))

\* The constant 0.5 of lines 16 and 23.
Half == Fin(RoundDiv(SCALE, 2))

\* sqrt of a finite argument: the nearest number whose square is not above it.
SqrtFix(v) == CHOOSE r \in 0 .. (7 * SCALE) :
                  r * r <= v * SCALE /\ (r + 1) * (r + 1) > v * SCALE

Sqrt(a) == IF IsNaN(a) THEN NaN
           ELSE IF a = PInf THEN PInf
           ELSE IF a.v < 0 THEN NaN
           ELSE Fin(SqrtFix(a.v))

\* The modified Bessel function I0 of a finite argument |v| <= 6: the power
\* series sum of ((v/2)^2)^k / (k!)^2, term by term.
RECURSIVE I0Series(_, _, _)
I0Series(q, term, k) ==
    IF term = 0 THEN 0
    ELSE term + I0Series(q, RoundDiv(RoundDiv(term * q, SCALE), k * k), k + 1)

\* rssringoccs_Bessel_I0: accurate over the whole real line, so a value
\* beyond the largest finite number is an infinity.
BesselI0(a) ==
    IF IsNaN(a) THEN NaN
    ELSE IF a.k = "inf" THEN PInf
    ELSE IF AbsInt(a.v) > 6 * SCALE THEN PInf
    ELSE Norm(I0Series(RoundDiv(a.v * a.v, 4 * SCALE), SCALE, 1))

\* The test of lines 16 and 23 with <= in place of <.
KB_Inside_Closed(abs_x, W) == Le(abs_x, Mul(Half, W))

\* Lines 16 and 23: abs_x < 0.5*W.
KB_Inside(abs_x, W) == Lt(abs_x, Mul(Half, W))

\* The test of line 14 never taken.
KB_IsRect_Never(alpha) == FALSE

\* Line 14: alpha == 0.0.
KB_IsRect(alpha) == Eq(alpha, Zero)

\* Lines 25-30: the window value inside the support, alpha nonzero.
KB_Ratio(abs_x, W, alpha) ==
    LET arg1 == Div(Mul(Two, abs_x), W)
        arg  == Sqrt(Sub(One, Mul(arg1, arg1)))
        al   == Mul(alpha, ONE_PI)
    IN  Div(BesselI0(Mul(al, arg)), BesselI0(al))

\* Lines 8-37: the whole function, one step.
KB_Eval ==
    /\ op = "Kaiser_Bessel" /\ pc = "kb_entry"
    /\ LET abs_x == Abs(kb_x)
       IN  IF KB_IsRect(kb_alpha)
           THEN /\ kb_ret' = (IF KB_Inside(abs_x, kb_W) THEN One ELSE Zero)
                /\ i0_calls' = i0_calls
           ELSE IF KB_Inside(abs_x, kb_W)
                THEN /\ kb_ret' = KB_Ratio(abs_x, kb_W, kb_alpha)
                     /\ i0_calls' = i0_calls + 2
                ELSE /\ kb_ret' = Zero
                     /\ i0_calls' = i0_calls
    /\ pc' = "done"
    /\ UNCHANGED <<op, prec, kb_x, kb_W, kb_alpha, ftvars, rivars, lwvars, pyvars, extvars>>

(***************************************************************************)
(* A numpy entry point, first step: PyArg_ParseTuple.  On failure the      *)
(* entry point sets TypeError and returns NULL.  On success the array's    *)
(* NDIM and DIMS[0] and the double arguments are known.                    *)
(***************************************************************************)
PY_Parse ==
    /\ op \in PyFunctions /\ pc = "py_args"
    /\ \E parsed \in BOOLEAN :
         IF parsed
         THEN /\ ndim' \in PyNDims
              /\ dim' \in PyDims
              /\ scal' \in [PyScalars(op) -> PyScalarValues]
              /\ pc' = "py_check"
              /\ UNCHANGED <<py_ret, py_exc>>
         ELSE /\ py_exc' = Err("TypeError", "bad_args")
              /\ py_ret' = "NULL"
              /\ pc' = "done"
              /\ UNCHANGED <<ndim, dim, scal>>
    /\ UNCHANGED <<op, prec, typenum, y, evals, out_type, y_vals>>
    /\ UNCHANGED <<ftvars, rivars, lwvars, kbvars, extvars>>

(***************************************************************************)
(* A numpy entry point, second step: the chain of argument checks.         *)
(***************************************************************************)
PY_Check ==
    /\ op \in PyFunctions /\ pc = "py_check"
    /\ LET c == PyCheck(op, ndim, dim, scal) IN
         /\ py_exc' = c.err
         /\ IF c.returns
            THEN py_ret' = "NULL" /\ pc' = "done"
            ELSE py_ret' = py_ret /\ pc' = "py_compute"
    /\ UNCHANGED <<op, prec, typenum, ndim, dim, scal, y, evals, out_type, y_vals>>
    /\ UNCHANGED <<ftvars, rivars, lwvars, kbvars, extvars>>

(***************************************************************************)
(* A numpy entry point, third step: the dispatch on PyArray_TYPE.  A       *)
(* computing branch fills dim values and returns the output array built    *)
(* around the buffer (PyArray_SimpleNewFromData and the capsule); it       *)
(* leaves the exception state as it is.  The final else sets TypeError and *)
(* returns NULL without freeing the buffer.                                *)
(***************************************************************************)
PY_Compute ==
    /\ op \in PyFunctions /\ pc = "py_compute"
    /\ \E t \in PyTypenums :
         /\ typenum' = t
         /\ IF PyAccepts(op, t)
            THEN /\ y' = "owned_by_output"
                 /\ evals' = dim
                 /\ y_vals' = PyLoop(dim, PyCalled(op, t))
                 /\ out_type' = PyOutType(op, t)
                 /\ py_ret' = "array"
                 /\ py_exc' = py_exc
            ELSE /\ y' = IF PyAllocatesBeforeTests(op) THEN "leaked"
                         ELSE "unallocated"
                 /\ evals' = 0
                 /\ UNCHANGED <<out_type, y_vals>>
                 /\ py_ret' = "NULL"
                 /\ py_exc' = Err("TypeError", "invalid data type")
    /\ pc' = "done"
    /\ UNCHANGED <<op, prec, ndim, dim, scal>>
    /\ UNCHANGED <<ftvars, rivars, lwvars, kbvars, extvars>>


(***************************************************************************)
(* where_greater (part_003, lines 1768-1887) and the helper macro          *)
(* __get_where_pointer (_bessel.h, lines 285-319) that is the body of      *)
(* every Where_Greater_* function.                                         *)
(***************************************************************************)
WG_Values == {Zero, One, Two}
WG_Thresholds == {Fin(SCALE \div 2), One, Two}

RECURSIVE SeqsUpTo(_, _)
SeqsUpTo(S, n) ==
    IF n = 0 THEN {<<>>}
    ELSE SeqsUpTo(S, n - 1)
         \cup {Append(q, v) : q \in {r \in SeqsUpTo(S, n - 1) : Len(r) = n - 1},
                              v \in S}

WG_Arrays == SeqsUpTo(WG_Values, MaxWhereDim)

\* The case labels of the switch at lines 1802-1855.
WG_Cases == PyIntegerTypenums \cup PyFloatTypenums

\* The test with equality admitted.
WG_Test_OrEqual(v, threshold) == Ge(v, threshold)

\* Line 297 of the macro: data[i] > threshold.
WG_Test(v, threshold) == Gt(v, threshold)

\* Lines 296-301: the loop that fills dummy; i counts from 0 in the source,
\* data is held as a sequence indexed from 1.
RECURSIVE WG_Scan(_, _, _, _)
WG_Scan(data, threshold, i, dummy) ==
    IF ~(i < Len(data)) THEN dummy
    ELSE WG_Scan(data, threshold, i + 1,
                 IF WG_Test(data[i + 1], threshold) THEN Append(dummy, i)
                 ELSE dummy)

\* Lines 286-318: arr is the copy of the first arr_size elements of dummy.
get_where_pointer(data, threshold) ==
    LET dummy == WG_Scan(data, threshold, 0, <<>>)
        n == Len(dummy)
    IN  [arr |-> [j \in 1 .. n |-> dummy[j]], arr_size |-> n]

\* where[1] = &arr_size is the address of a local of the helper; once the
\* helper has returned, a read through it may yield any value.
DanglingReads == 0 .. MaxWhereDim

WG_Parse ==
    /\ op = "where_greater" /\ pc = "wg_args"
    /\ \E parsed \in BOOLEAN :
         IF ~parsed
         THEN /\ py_exc' = Err("TypeError", "bad_args")
              /\ py_ret' = "NULL"
              /\ pc' = "done"
              /\ UNCHANGED <<typenum, ndim, dim, scal, wg_data>>
         ELSE \E nd \in PyNDims, t \in PyTypenums, data \in WG_Arrays,
                 threshold \in WG_Thresholds :
              /\ ndim' = nd
              /\ typenum' = t
              /\ dim' = Len(data)
              /\ wg_data' = data
              /\ scal' = [n \in {"threshold"} |-> threshold]
              /\ IF nd # 1
                 THEN /\ py_exc' = Err("TypeError", "not 1-dimensional")
                      /\ py_ret' = "NULL"
                      /\ pc' = "done"
                 ELSE IF t \notin WG_Cases
                 THEN /\ py_exc' = Err("TypeError", "invalid data type")
                      /\ py_ret' = "NULL"
                      /\ pc' = "done"
                 ELSE /\ pc' = "wg_helper"
                      /\ UNCHANGED <<py_ret, py_exc>>
    /\ UNCHANGED <<op, prec, y, evals, out_type, y_vals>>
    /\ UNCHANGED <<wg_arr, wg_arr_size, where_dim, wnvars, lgvars>>
    /\ UNCHANGED <<ftvars, rivars, lwvars, kbvars>>

\* The call of Where_Greater_*: the helper runs and returns where.
WG_Where ==
    /\ op = "where_greater" /\ pc = "wg_helper"
    /\ LET w == get_where_pointer(wg_data, scal["threshold"]) IN
         /\ wg_arr' = w.arr
         /\ wg_arr_size' = w.arr_size
    /\ pc' = "wg_read"
    /\ UNCHANGED <<op, prec, pyvars, wg_data, where_dim, wnvars, lgvars>>
    /\ UNCHANGED <<ftvars, rivars, lwvars, kbvars>>

\* Lines 1858-1876: where_dim = *where[1], the output array of where_dim
\* elements around where[0], free(where), return.
WG_Return ==
    /\ op = "where_greater" /\ pc = "wg_read"
    /\ where_dim' \in DanglingReads
    /\ out_type' = "NPY_LONG"
    /\ y' = "owned_by_output"
    /\ py_ret' = "array"
    /\ pc' = "done"
    /\ UNCHANGED <<op, prec, typenum, ndim, dim, scal, evals, py_exc, y_vals>>
    /\ UNCHANGED <<wg_data, wg_arr, wg_arr_size, wnvars, lgvars>>
    /\ UNCHANGED <<ftvars, rivars, lwvars, kbvars>>

(***************************************************************************)
(* window_norm (part_003, lines 2573-2672).                                *)
(***************************************************************************)
\* What PyTuple_GetItem(args, 0) is: a Python int, a Python float, a numpy
\* array, or something else.
WN_Kers == {"long", "float", "array", "other"}

WN_Typenums == PyTypenums \cup {"NPY_CFLOAT", "NPY_CDOUBLE", "NPY_CLONGDOUBLE"}

\* The dtypes whose branch returns through PyFloat_FromDouble (lines
\* 2610-2646) and through PyLong_FromLong (lines 2647-2656).
WN_FloatBranches == {"NPY_CFLOAT", "NPY_CDOUBLE", "NPY_CLONGDOUBLE",
                     "NPY_FLOAT", "NPY_DOUBLE", "NPY_LONGDOUBLE"}
WN_LongBranches == {"NPY_INT", "NPY_LONG"}

\* Values Window_Normalization_* hands back.
WN_Factors == {Fin(0 - (3 * SCALE) \div 2), Zero, Fin(SCALE \div 4), One,
               Fin((5 * SCALE) \div 2)}

\* Conversion of a finite double to long: the fractional part is discarded.
ToLong(a) == Fin(Sign(a) * (AbsInt(a.v) \div SCALE) * SCALE)

PyFloat_FromDouble(a) == [type |-> "float", val |-> a]
PyLong_FromLong(a) == [type |-> "int", val |-> ToLong(a)]

WN_Call ==
    /\ op = "window_norm" /\ pc = "wn_args"
    /\ \E ker \in WN_Kers, factor \in WN_Factors :
         /\ wn_ker' = ker
         /\ IF ker \in {"long", "float"}
            THEN /\ wn_factor' = factor
                 /\ wn_ret' = PyFloat_FromDouble(factor)
                 /\ py_ret' = "object"
                 /\ UNCHANGED <<typenum, ndim, py_exc>>
            ELSE IF ker = "other"
            THEN /\ py_exc' = Err("TypeError", "bad_args")
                 /\ py_ret' = "NULL"
                 /\ UNCHANGED <<typenum, ndim, wn_factor, wn_ret>>
            ELSE \E nd \in PyNDims, t \in WN_Typenums :
                 /\ ndim' = nd
                 /\ IF nd # 1
                    THEN /\ py_exc' = Err("TypeError", "not 1-dimensional")
                         /\ py_ret' = "NULL"
                         /\ UNCHANGED <<typenum, wn_factor, wn_ret>>
                    ELSE /\ typenum' = t
                         /\ IF t \in WN_FloatBranches
                            THEN /\ wn_factor' = factor
                                 /\ wn_ret' = PyFloat_FromDouble(factor)
                                 /\ py_ret' = "object"
                                 /\ py_exc' = py_exc
                            ELSE IF t \in WN_LongBranches
                            THEN /\ wn_factor' = factor
                                 /\ wn_ret' = PyLong_FromLong(factor)
                                 /\ py_ret' = "object"
                                 /\ py_exc' = py_exc
                            ELSE /\ py_exc' = Err("TypeError", "invalid data type")
                                 /\ py_ret' = "NULL"
                                 /\ UNCHANGED <<wn_factor, wn_ret>>
    /\ pc' = "done"
    /\ UNCHANGED <<op, prec, dim, scal, y, evals, out_type, y_vals>>
    /\ UNCHANGED <<wgvars, lgvars>>
    /\ UNCHANGED <<ftvars, rivars, lwvars, kbvars>>

(***************************************************************************)
(* The comparison of the library's double-precision logarithm with log of  *)
(* math.h on samples of an interval that starts at 0.                      *)
(***************************************************************************)
\* The samples: from start = 0.0 in steps of a quarter, up to the largest
\* finite value.
LogSamples == {Fin(n * (SCALE \div 4)) : n \in 0 .. ((4 * MaxFinite) \div SCALE)}

\* A logarithm that is finite at 0.
rssringoccs_Log_Double_FiniteAtZero(x) ==
    IF x = Zero THEN Fin(0 - MaxFinite) ELSE Log(x)

\* part_000, line 215: #define rssringoccs_Log_Double(x) log((x)).
rssringoccs_Log_Double(x) == Log(x)

LOG_Compare ==
    /\ op = "log_compare" /\ pc = "lg_sample"
    /\ \E x \in LogSamples :
         /\ log_x' = x
         /\ log_c99' = Log(x)
         /\ log_rss' = rssringoccs_Log_Double(x)
    /\ pc' = "done"
    /\ UNCHANGED <<op, prec, pyvars, wgvars, wnvars>>
    /\ UNCHANGED <<ftvars, rivars, lwvars, kbvars>>

Next ==
    \/ LOG_Compare
    \/ WN_Call
    \/ WG_Parse
    \/ WG_Where
    \/ WG_Return
    \/ PY_Parse
    \/ PY_Check
    \/ PY_Compute
    \/ KB_Eval
    \/ FT_ParseArgs
    \/ FT_PerturbItem
    \/ FT_CheckArray
    \/ FT_RangeCheck
    \/ FT_Dispatch
    \/ FT_Return
    \/ LW_Enter
    \/ LW_Loop
    \/ RI_Enter
    \/ RI_Return

Spec == Init /\ [][Next]_vars

(***************************************************************************)
(* Properties of fresnel_transform.                                        *)
(***************************************************************************)
\* The call went through malloc and dispatch (lines 831-847).
Dispatched == pc \in {"ft_return", "done"} /\ T_out # "unallocated"

\* Some per-sample array read so far has a length other than T_in's.
LengthMismatch == \E k \in 2 .. Len(dims) : dims[k] # dims[1]

\* C1: a call in which a per-sample array has a length different from the
\* length of T_in is rejected with an error return, T_out is never allocated
\* and no strategy runs.
C1_LengthMismatchRejected ==
    LengthMismatch =>
        /\ T_out = "unallocated"
        /\ ran = <<>>
        /\ (pc = "done" => ret = "NULL" /\ exc # NoExc)

\* C2: an output array is returned only when the strategy left status 0;
\* every nonzero status returns NULL with an exception set.
C2_ArrayOnlyOnStatusZero ==
    /\ ret = "array" => Dispatched /\ dlp.status = 0
    /\ (pc = "done" /\ Dispatched /\ dlp.status # 0) =>
           ret = "NULL" /\ exc.type # "none"

C2_Witness ==
    /\ pc = "done" /\ Dispatched
    /\ dlp.status \notin 0 .. 4
    /\ ret = "NULL"

\* C3: after a call whose strategy reported a nonzero status, the T_out
\* block allocated before dispatch has been freed.
C3_FailedCallFreesOutput ==
    (pc = "done" /\ Dispatched /\ dlp.status # 0) => T_out = "freed"

\* C4: with use_fft off a validated call runs exactly one strategy: Newton
\* for order 0, ecc = peri = 0 and all perturb zero; PerturbedNewton for
\* order 0, ecc = peri = 0 and some perturb nonzero; Ellipse for order 0 with
\* ecc or peri nonzero; Fresnel for order 1; Legendre for order 2..8.
C4_StrategySelection ==
    (Dispatched /\ use_fft = 0) =>
        /\ Len(ran) = 1
        /\ (dlp.order = 0 /\ dlp.ecc = 0 /\ dlp.peri = 0
              /\ PerturbAllZero(dlp.perturb)) => ran[1] = "Newton"
        /\ (dlp.order = 0 /\ dlp.ecc = 0 /\ dlp.peri = 0
              /\ ~PerturbAllZero(dlp.perturb)) => ran[1] = "PerturbedNewton"
        /\ (dlp.order = 0 /\ (dlp.ecc # 0 \/ dlp.peri # 0)) => ran[1] = "Ellipse"
        /\ dlp.order = 1 => ran[1] = "Fresnel"
        /\ dlp.order \in 2 .. 8 => ran[1] = "Legendre"

C4_Witness ==
    /\ Dispatched /\ use_fft = 0
    /\ dlp.order = 0 /\ dlp.peri # 0 /\ ~PerturbAllZero(dlp.perturb)
    /\ ran = <<"Ellipse">>

\* C5: the FFT strategy runs only when the Fresnel strategy (order = 1) is
\* requested: a call with use_fft set and another order never runs it.
C5_FFTOnlyForFresnel ==
    \A j \in 1 .. Len(ran) : ran[j] = "SimpleFFT" => dlp.order = 1

\* C6: when the stationary-phase solver of a Newton-type strategy does not
\* converge, the call returns no array and raises an error of a kind other
\* than those raised for the data (1), range (2), allocation (3) and
\* interp (4) statuses.
C6_NonConvergenceReported ==
    (pc = "done" /\ Dispatched /\ dlp.status = NonConvergenceStatus) =>
        /\ ret = "NULL"
        /\ exc.type \notin {StatusError(st).type : st \in 1 .. 4}

(***************************************************************************)
(* Properties of LambertW and Resolution_Inverse.                          *)
(***************************************************************************)
\* LambertW has returned (to its caller or to Resolution_Inverse).
LW_Returned == lw_ret # Unset

\* C7: the Halley iteration of LambertW terminates for every finite input
\* x > -1/e, running under an iteration budget after which it stops with
\* NonConvergence: no call is ever brought back by a Halley step to a pair
\* (x0, dx) it has already left, from where the loop would repeat for ever.
C7_HalleyIterationTerminates ==
    (IsFinite(lw_x) /\ Gt(lw_x, Neg(RCPR_EULER_E))) => ~cycled

\* C8: LambertW returns exactly -1 when its input equals -RCPR_EULER_E, and
\* NaN, without any Halley step, for every input below -RCPR_EULER_E.
C8_BranchPointAndBelow ==
    LW_Returned =>
        /\ Eq(lw_x, Neg(RCPR_EULER_E)) => lw_ret = Neg(One) /\ iterates = {}
        /\ Lt(lw_x, Neg(RCPR_EULER_E)) => IsNaN(lw_ret) /\ iterates = {}

C8_Witness ==
    /\ op = "LambertW" /\ pc = "done"
    /\ lw_x = Neg(RCPR_EULER_E)
    /\ lw_ret = Neg(One)

\* C9: on a NaN input LambertW and Resolution_Inverse end with a NaN (the
\* domain error), never with a finite number or an infinity.
C9_NaNInputIsDomainError ==
    /\ (op = "LambertW" /\ pc = "done" /\ IsNaN(lw_x)) => IsNaN(lw_ret)
    /\ (op = "Resolution_Inverse" /\ pc = "done" /\ IsNaN(ri_x)) => IsNaN(ri_ret)

\* C10: Resolution_Inverse ends with the domain error (NaN) for every input
\* y <= 1, and has then started no LambertW evaluation.
C10_DomainErrorAtOrBelowOne ==
    (op = "Resolution_Inverse" /\ pc = "done" /\ Le(ri_x, One)) =>
        /\ IsNaN(ri_ret)
        /\ lw_calls = 0
        /\ lw_ret = Unset

C10_Witness ==
    /\ op = "Resolution_Inverse" /\ pc = "done"
    /\ ri_x = One
    /\ IsNaN(ri_ret)
    /\ lw_calls = 0

\* C11: for every finite y > 1, Resolution_Inverse(y) is LambertW(P * exp(P)) - P
\* with P = y / (1 - y): one LambertW evaluation, at P * exp(P), whose
\* result less P is the value returned.
C11_ResolutionInverseFormula ==
    (op = "Resolution_Inverse" /\ pc = "done"
        /\ IsFinite(ri_x) /\ Gt(ri_x, One)) =>
        LET P == Div(ri_x, Sub(One, ri_x))
        IN  /\ lw_calls = 1
            /\ lw_x = Mul(P, Exp(P))
            /\ LW_Returned
            /\ ri_ret = Sub(lw_ret, P)

C11_Witness ==
    /\ op = "Resolution_Inverse" /\ pc = "done"
    /\ IsFinite(ri_x) /\ Gt(ri_x, One)
    /\ lw_calls = 1
    /\ IsFinite(ri_ret) /\ Gt(ri_ret, Zero)

\* C12: Resolution_Inverse returns 0 for the input +infinity and NaN for
\* every input <= 1, in each of the three variants.
C12_InfinityAndDomain ==
    (op = "Resolution_Inverse" /\ pc = "done") =>
        /\ ri_x = PInf => ri_ret = Fin(0)
        /\ Le(ri_x, One) => IsNaN(ri_ret)

C12_Witness ==
    /\ op = "Resolution_Inverse" /\ pc = "done"
    /\ ri_x = PInf
    /\ ri_ret = Fin(0)

\* A tolerance of one hundredth, far wider than the 1e-12 of the round trip.
RoundTripTol == Fin(RoundDiv(SCALE, 100))

\* C13: LambertW_Double(x * exp(x)) equals x to within 1e-12 for every x in
\* [-1, 50]; here for every x of RoundTripInputs, and only to within the
\* far wider RoundTripTol.
C13_RoundTrip ==
    (op = "LambertW" /\ prec = "Double" /\ pc = "done") =>
        \A x \in RoundTripInputs :
            Eq(lw_x, Mul(Fin(x), Exp(Fin(x)))) =>
                Le(Abs(Sub(lw_ret, Fin(x))), RoundTripTol)

(***************************************************************************)
(* Properties of rssringoccs_Kaiser_Bessel.                                *)
(***************************************************************************)
\* C14: the Kaiser-Bessel window is 0 whenever |x| >= W/2, for every x,
\* every W (W <= 0 included, where every x is outside) and every alpha >= 0.
C14_CompactSupport ==
    (op = "Kaiser_Bessel" /\ pc = "done" /\ Le(Zero, kb_alpha)) =>
        /\ Le(Mul(Fin(RoundDiv(SCALE, 2)), kb_W), Abs(kb_x)) => kb_ret = Fin(0)
        /\ (Le(kb_W, Zero) /\ ~IsNaN(kb_x)) => kb_ret = Fin(0)

C14_Witness ==
    /\ op = "Kaiser_Bessel" /\ pc = "done"
    /\ kb_alpha = One /\ kb_W = Two /\ kb_x = One
    /\ kb_ret = Fin(0)

\* C15: the Kaiser-Bessel window is exactly 1 at x = 0, for every W > 0 and
\* every alpha >= 0.
C15_UnitPeak ==
    (op = "Kaiser_Bessel" /\ pc = "done"
        /\ Eq(kb_x, Zero) /\ Gt(kb_W, Zero) /\ Le(Zero, kb_alpha)) =>
        kb_ret = One

\* C16: with alpha = 0 the Kaiser-Bessel window is the rectangular window,
\* 1 for |x| < W/2 and 0 otherwise, and no Bessel function is evaluated.
C16_AlphaZeroIsRect ==
    (op = "Kaiser_Bessel" /\ pc = "done" /\ Eq(kb_alpha, Zero)) =>
        /\ i0_calls = 0
        /\ kb_ret = IF Lt(Abs(kb_x), Mul(Fin(RoundDiv(SCALE, 2)), kb_W))
                    THEN One ELSE Zero

C16_Witness ==
    /\ op = "Kaiser_Bessel" /\ pc = "done"
    /\ kb_alpha = Zero /\ kb_W = Two /\ kb_x = Fin(SCALE \div 2)
    /\ kb_ret = One /\ i0_calls = 0

\* A numpy entry point has returned after parsing its arguments.
PY_Returned == op \in PyFunctions /\ pc = "done" /\ ndim # 0
PY_Rejected == py_ret = "NULL" /\ py_exc # NoExc /\ evals = 0

\* C17: the kbmdal entry point rejects every alpha <= 0, alpha = 0
\* included: it returns an error and evaluates no window value.
C17_KbmdalRejectsNonPositiveAlpha ==
    (op = "kbmdal" /\ PY_Returned /\ Le(scal["alpha"], Zero)) => PY_Rejected

\* C18: every forward-model entry point rejects a Fresnel scale F <= 0,
\* F = 0 included, and an edge radius a <= 0 where it takes one: it
\* returns an error and computes no diffraction value.
C18_ForwardModelsRejectNonPositive ==
    (/\ op \in PyForward
     /\ PY_Returned
     /\ \/ Le(scal["F"], Zero)
        \/ ("a" \in DOMAIN scal /\ Le(scal["a"], Zero)))
    => PY_Rejected

\* C19: in every dtype-dispatching entry point, no integer dtype,
\* unsigned long long included, reaches the invalid-data-type error.
C19_EveryIntegerDtypeAccepted ==
    (op \in PyFunctions /\ pc = "done" /\ typenum \in PyIntegerTypenums)
    => (py_ret = "array" /\ py_exc # Err("TypeError", "invalid data type"))

\* C20: a one-variable special function called with an empty
\* one-dimensional array raises TypeError and returns NULL; it allocates
\* no output buffer and returns no array.
C20_EmptyArrayRejected ==
    (op \in PyOneVar /\ PY_Returned /\ ndim = 1 /\ dim = 0)
    => (py_exc.type = "TypeError" /\ py_ret = "NULL" /\ y = "unallocated")

\* The indices n of data, counted from 0, whose element is greater than
\* the threshold.
WG_Greater == {n \in 0 .. (Len(wg_data) - 1) :
                  Gt(wg_data[n + 1], scal["threshold"])}
WG_HelperReturned == op = "where_greater" /\ pc \in {"wg_read", "done"}
                         /\ py_ret # "NULL"

C29_WhereDimIsHelperCount ==
    (op = "where_greater" /\ pc = "done" /\ py_ret = "array") =>
        where_dim = wg_arr_size

\* C22: window_norm returns the normalization factor as a real (float)
\* value for every accepted input, integer scalars and integer arrays
\* included, never its truncation to an integer.
C22_WindowNormReturnsFloat ==
    (op = "window_norm" /\ pc = "done" /\ py_ret = "object") =>
        (wn_ret.type = "float" /\ wn_ret.val = wn_factor)

\* C23: the Legendre strategy is run only with a polynomial order between
\* 2 and 8; fresnel_transform never runs it for an order above 8.
C23_LegendreOrderRange ==
    (op = "fresnel_transform" /\ \E j \in DOMAIN ran : ran[j] = "Legendre")
    => (2 <= dlp.order /\ dlp.order <= 8)

\* C27: every (start, n_used) pair that passes the range check satisfies
\* 0 <= start and start + n_used < arr_size, so the samples start ..
\* start + n_used all lie inside the input arrays.
C27_RangeCheckKeepsSpanInside ==
    (op = "fresnel_transform" /\ pc = "ft_dispatch")
    => (0 <= dlp.start /\ dlp.start + dlp.n_used < ArrSize)

\* C28: if perturb yields fewer than five items, or an item that is
\* neither an int nor a float, the call returns NULL with TypeError at
\* that item: no further item is read, T_out is not allocated and no
\* strategy runs.
C28_BadPerturbItemReturns ==
    (op = "fresnel_transform"
        /\ exc \in {Err("TypeError", "Size of your list"),
                    Err("TypeError", "not real numbers")})
    => (pc = "done" /\ ret = "NULL" /\ T_out = "unallocated" /\ ran = <<>>)

MatchingType(t) ==
    CASE t = "NPY_FLOAT" -> "Float"
      [] t = "NPY_DOUBLE" -> "Double"
      [] t = "NPY_LONGDOUBLE" -> "Long_Double"
      [] t = "NPY_BYTE" -> "Char"
      [] t = "NPY_UBYTE" -> "UChar"
      [] t = "NPY_SHORT" -> "Short"
      [] t = "NPY_USHORT" -> "UShort"
      [] t = "NPY_INT" -> "Int"
      [] t = "NPY_UINT" -> "UInt"
      [] t = "NPY_LONG" -> "Long"
      [] t = "NPY_ULONG" -> "ULong"
      [] t = "NPY_LONGLONG" -> "Long_Long"
      [] t = "NPY_ULONGLONG" -> "ULong_Long"
      [] OTHER -> "none"

PY_ReturnedArray == op \in PyOneVar \cup PyWindow \cup PyAlphaWindow
                        /\ pc = "done" /\ py_ret = "array"

C30_InvalidDtypeFreesBuffer ==
    (op \in PyFunctions /\ pc = "done"
        /\ py_exc = Err("TypeError", "invalid data type"))
    => y \in {"unallocated", "freed"}

====
